---- MODULE Spec2Model ----
(***************************************************************************)
(* PulseCheck: the monitors / monitor_checks tables with their row-level   *)
(* security policies and foreign keys (001_init.sql), and the four edge    *)
(* functions createMonitor, getMonitors, deleteMonitor and runCheck that   *)
(* operate on them.  Every database statement of a handler is one atomic   *)
(* step; handlers of different requests interleave between statements.     *)
(***************************************************************************)
EXTENDS Integers, Sequences, FiniteSets, TLC

(* ------------------------------ bounds --------------------------------- *)
MaxSlots == 2
MaxMonitors == 2
MaxRequests == 3
MaxClock == 1

(* --------------------------- program constants ------------------------- *)
DefaultInterval == 300
HttpTimeoutMs == 10000
PingTimeoutMs == 5000

(* ------------------------------ values --------------------------------- *)
None == <<>>
Some(x) == <<x>>

Users == {"u1", "u2"}
Anon == "anon"

Slots == 1..MaxSlots
MonitorIds == 1..MaxMonitors
NoId == 0

MonitorTypes == {"http", "https", "ping"}

EmptyUrl == [scheme |-> "", host |-> "", path |-> ""]
SiteUrl == [scheme |-> "https", host |-> "example.test", path |-> "/health"]
SiteOrigin == [scheme |-> "https", host |-> "example.test", path |-> ""]
RelativeUrl == [scheme |-> "", host |-> "", path |-> "/health"]

EmptyName == <<>>
BlankName == <<" ">>
SiteName == <<"s">>

VARIABLES monitors, checks, clock, nextMonitorId, nextCheckId, calls, started,
          dashboard

vars ==
  <<monitors, checks, clock, nextMonitorId, nextCheckId, calls, started,
    dashboard>>

(* ------------------------- request / response -------------------------- *)
Response(st, err, d) == [status |-> st, error |-> err, data |-> d]
NoResponse == Response(0, "", None)

NoFloor == [i \in MonitorIds |-> -1]

(* One handler invocation.  op, user, mid, body: the request.  pc, mon,     *)
(* res, mons, out: the handler's position and locals.  resp: its response. *)
(* seen, hit and floor record what the tables held when the handler ran    *)
(* its statements: whose monitor mid was at the fetch, whether the write   *)
(* touched a row, and the newest checked_at per monitor at arrival.  probe *)
(* is what the network did while performCheck ran.                         *)
IdleCall ==
  [op |-> "none", pc |-> "idle", user |-> Anon, mid |-> NoId, mon |-> None,
   res |-> None, mons |-> <<>>, out |-> <<>>, seen |-> "-", hit |-> "-",
   floor |-> NoFloor, body |-> None, probe |-> None, resp |-> NoResponse]

(* The dashboard page's state in one browser: who is signed in and the    *)
(* monitors list of useState, empty until a getMonitors result is stored. *)
(* removed records the ids handleMonitorDeleted has filtered out.         *)
NewDashboard(uid) == [user |-> uid, monitors |-> <<>>, removed |-> {}]

(* A connection that is not open. *)
ClosedCall == [IdleCall EXCEPT !.pc = "closed"]

NewCall(o, uid, id) == [IdleCall EXCEPT !.op = o, !.user = uid, !.mid = id]

Free(s) == calls[s].pc \in {"idle", "done"}

(* Connections are taken in turn: request number n goes to connection n   *)
(* (modulo their number), or to the next one after it that is free.       *)
Rank(s) == (s - 1 - started) % MaxSlots

(* A new request arrives on connection s, replacing the answer it held. *)
Accept(s) ==
  /\ Free(s)
  /\ \A t \in Slots : Free(t) => Rank(s) <= Rank(t)
  /\ started < MaxRequests
  /\ started' = started + 1

(* The handler returns: its locals are gone, its response is delivered. *)
Finish(c, r) ==
  [c EXCEPT !.pc = "done", !.resp = r, !.mon = None, !.res = None,
            !.mons = <<>>, !.out = <<>>, !.probe = None]

MethodNotAllowed == Response(405, "Method not allowed", None)
Unverified == Response(200, "", None)

(* if (authError || !user) return 401 *)
Unauthorized == Response(401, "Unauthorized - please log in", None)
MissingMonitorId == Response(400, "Missing required field: monitor_id", None)
NotFound == Response(404, "Monitor not found or access denied", None)
InternalError == Response(500, "Internal server error", None)

(* Greatest checked_at stored for each monitor when the request arrives. *)
Recorded(id) ==
  LET rows == {c \in checks : c.monitor_id = id}
  IN IF rows = {} THEN -1
     ELSE CHOOSE t \in {c.checked_at : c \in rows} :
            \A c \in rows : c.checked_at <= t

(* What the whole table says about id, whatever the caller may see. *)
Ownership(uid, id) ==
  IF \A m \in monitors : m.id # id THEN "absent"
  ELSE IF \E m \in monitors : m.id = id /\ m.user_id = uid THEN "owned"
  ELSE "foreign"

(* now(): clock is the latest time a statement has read; a later statement *)
(* reads the same instant or a later one.                                  *)
Now == {t \in {clock, clock + 1} : t <= MaxClock}

(* --------------------------- row level security ------------------------ *)
VisibleMonitorsNoRls(uid) == monitors

VisibleMonitors(uid) == {m \in monitors : m.user_id = uid}

VisibleChecks(uid) ==
  {c \in checks : \E m \in monitors : m.id = c.monitor_id /\ m.user_id = uid}

SelectMonitorSingleUnscoped(uid, id) ==
  LET rows == {m \in monitors : m.id = id}
  IN IF Cardinality(rows) = 1
     THEN [error |-> FALSE, data |-> Some(CHOOSE m \in rows : TRUE)]
     ELSE [error |-> TRUE, data |-> None]

(* .from("monitors").select(...).eq("id", id).single() *)
SelectMonitorSingle(uid, id) ==
  LET rows == {m \in VisibleMonitors(uid) : m.id = id}
  IN IF Cardinality(rows) = 1
     THEN [error |-> FALSE, data |-> Some(CHOOSE m \in rows : TRUE)]
     ELSE [error |-> TRUE, data |-> None]

(* --------------------------- JS / URL helpers -------------------------- *)
IsSpace(ch) == ch = " "

RECURSIVE TrimStart(_)
TrimStart(str) ==
  IF str # <<>> /\ IsSpace(Head(str)) THEN TrimStart(Tail(str)) ELSE str

RECURSIVE TrimEnd(_)
TrimEnd(str) ==
  IF str # <<>> /\ IsSpace(str[Len(str)])
  THEN TrimEnd(SubSeq(str, 1, Len(str) - 1)) ELSE str

Trim(str) == TrimEnd(TrimStart(str))

SpecialSchemes == {"http", "https", "ftp", "ws", "wss"}

(* new URL(s) without a base throws unless s is an absolute URL. *)
UrlParses(u) ==
  /\ u.scheme # ""
  /\ (u.scheme \in SpecialSchemes => u.host # "")

IntervalAlwaysDefault(iv) == DefaultInterval

(* body.interval_seconds || 300 *)
IntervalOrDefault(iv) ==
  IF iv = None \/ iv[1] = 0 THEN DefaultInterval ELSE iv[1]

(* ------------------------------ createMonitor -------------------------- *)
ValidateCreate(body) ==
  IF body.name = <<>> \/ body.url = EmptyUrl \/ body.type = ""
  THEN Some("Missing required fields: name, url, type")
  ELSE IF body.type \notin MonitorTypes
  THEN Some("Invalid type. Must be 'http', 'https', or 'ping'")
  ELSE IF ~UrlParses(body.url) THEN Some("Invalid URL format")
  ELSE None

NewMonitor(uid, body, now) ==
  [id |-> nextMonitorId, user_id |-> uid, name |-> body.name,
   url |-> body.url, type |-> body.type,
   interval_seconds |-> IntervalOrDefault(body.interval_seconds),
   created_at |-> now]

CreateMonitor(s, Bodies) ==
  /\ Accept(s)
  /\ \/ /\ calls' = [calls EXCEPT ![s] =
                       Finish(NewCall("create", Anon, NoId), MethodNotAllowed)]
        /\ UNCHANGED <<monitors, nextMonitorId, clock>>
     \/ /\ calls' = [calls EXCEPT ![s] =
                       Finish(NewCall("create", Anon, NoId), Unauthorized)]
        /\ UNCHANGED <<monitors, nextMonitorId, clock>>
     \/ \E uid \in Users :
          /\ calls' = [calls EXCEPT ![s] =
                         Finish(NewCall("create", uid, NoId), InternalError)]
          /\ UNCHANGED <<monitors, nextMonitorId, clock>>
     \/ \E uid \in Users, body \in Bodies, now \in Now :
          LET c == [NewCall("create", uid, NoId) EXCEPT !.body = Some(body)]
              bad == ValidateCreate(body)
              row == NewMonitor(uid, body, now)
          IN IF bad # None
             THEN /\ calls' = [calls EXCEPT ![s] =
                                 Finish(c, Response(400, bad[1], None))]
                  /\ UNCHANGED <<monitors, nextMonitorId, clock>>
             ELSE \/ /\ calls' = [calls EXCEPT ![s] =
                          Finish(c, Response(500, "Failed to create monitor", None))]
                     /\ UNCHANGED <<monitors, nextMonitorId, clock>>
                  \/ /\ nextMonitorId <= MaxMonitors
                     /\ monitors' = monitors \cup {row}
                     /\ clock' = now
                     /\ nextMonitorId' = nextMonitorId + 1
                     /\ calls' = [calls EXCEPT ![s] =
                          Finish([c EXCEPT !.mid = row.id],
                                 Response(201, "", Some(row)))]
  /\ UNCHANGED <<checks, nextCheckId, dashboard>>

(* ------------------------------ deleteMonitor -------------------------- *)
DeleteFetch(s) ==
  /\ Accept(s)
  /\ \/ calls' = [calls EXCEPT ![s] =
                    Finish(NewCall("delete", Anon, NoId), MethodNotAllowed)]
     \/ calls' = [calls EXCEPT ![s] =
                    Finish(NewCall("delete", Anon, NoId), Unauthorized)]
     \/ \E uid \in Users :
          calls' = [calls EXCEPT ![s] =
                      Finish(NewCall("delete", uid, NoId), InternalError)]
     \/ \E uid \in Users :
          calls' = [calls EXCEPT ![s] =
                      Finish(NewCall("delete", uid, NoId), MissingMonitorId)]
     \/ \E uid \in Users, id \in MonitorIds, ok \in BOOLEAN :
          LET c == [NewCall("delete", uid, id) EXCEPT !.seen = Ownership(uid, id)]
              got == SelectMonitorSingle(uid, id)
          IN calls' = [calls EXCEPT ![s] =
               IF ~ok \/ got.error \/ got.data = None
               THEN Finish(c, NotFound)
               ELSE [c EXCEPT !.pc = "delete",
                              !.mon = Some([id |-> got.data[1].id,
                                            user_id |-> got.data[1].user_id])]]
  /\ UNCHANGED <<monitors, checks, clock, nextMonitorId, nextCheckId,
                 dashboard>>

DeletedAllOwned(uid, id) == {m \in VisibleMonitors(uid) : m.user_id = uid}

(* delete from monitors where id = .. and user_id = .. *)
DeletedMonitors(uid, id) ==
  {m \in VisibleMonitors(uid) : m.id = id /\ m.user_id = uid}

CascadeNone(gone) == checks

(* monitor_checks.monitor_id references monitors(id) on delete cascade *)
Cascade(gone) == {c \in checks : \A m \in gone : c.monitor_id # m.id}

DeleteExec(s) ==
  /\ calls[s].op = "delete" /\ calls[s].pc = "delete"
  /\ LET c == calls[s]
         gone == DeletedMonitors(c.user, c.mid)
     IN \/ /\ calls' = [calls EXCEPT ![s] =
                 Finish(c, Response(500, "Failed to delete monitor", None))]
           /\ UNCHANGED <<monitors, checks>>
        \/ /\ monitors' = monitors \ gone
           /\ checks' = Cascade(gone)
           /\ calls' = [calls EXCEPT ![s] =
                Finish([c EXCEPT !.hit = IF gone = {} THEN "norow" ELSE "row"],
                       Response(200, "",
                         Some([message |-> "Monitor deleted successfully",
                               deleted_id |-> c.mid])))]
  /\ UNCHANGED <<clock, nextMonitorId, nextCheckId, started, dashboard>>

(* --------------------------------- runCheck ---------------------------- *)
Net(k, code) == [kind |-> k, code |-> code]

Msg(t, code) == [text |-> t, code |-> code]

CheckResult(st, ms, err) ==
  [status |-> st, response_time_ms |-> ms, error_message |-> err]

IsOkCode(code) == code >= 200 /\ code <= 299

(* response.ok || (response.status >= 300 && response.status < 400) *)
IsUpCode(code) == (code >= 200 /\ code <= 299) \/ (code >= 300 /\ code < 400)

Request(method, u) == [method |-> method, url |-> u]

OriginWithPath(u) == u

(* `${urlObj.protocol}//${urlObj.host}` *)
Origin(u) == [scheme |-> u.scheme, host |-> u.host, path |-> ""]

(* The requests a probe of SiteUrl can address, and a network: how each    *)
(* of them would be answered, were it sent.                                *)
Requests ==
  {Request(m, u) : m \in {"GET", "HEAD"}, u \in {SiteUrl, SiteOrigin}}

Networks(Outcomes) == [Requests -> Outcomes]

(* The latency of a request that the network never answers. *)
Never == 1000000

NeverAborts(limit, elapsed) == FALSE

(* signal: AbortSignal.timeout(limit) rejects the fetch once limit ms have *)
(* passed without an answer.                                               *)
AbortsAt(limit, elapsed) == elapsed >= limit

(* Whether the await of the fetch ever settles. *)
Settles(limit, elapsed) == elapsed < Never \/ AbortsAt(limit, elapsed)

(* await fetch(target, { method, signal: AbortSignal.timeout(limit) }) on  *)
(* a network that answers after `elapsed` ms: the response, or what is     *)
(* thrown.                                                                 *)
Fetch(req, net, elapsed, limit) ==
  IF ~UrlParses(req.url) THEN Net("invalid", 0)
  ELSE IF AbortsAt(limit, elapsed) THEN Net("timeout", 0)
  ELSE net[req]

(* Date.now() - startTime once the await has settled *)
ResponseTime(got, elapsed, limit) ==
  IF got.kind = "invalid" THEN 0
  ELSE IF AbortsAt(limit, elapsed) THEN limit
  ELSE elapsed

(* error.message of what fetch or new URL threw *)
Thrown(got) ==
  IF got.kind = "timeout" THEN Msg("The signal has been aborted", 0)
  ELSE IF got.kind = "invalid" THEN Msg("Invalid URL", 0)
  ELSE Msg("error sending request", 0)

Rethrown(responseTime, error) ==
  [status |-> "thrown", response_time_ms |-> Some(responseTime),
   error_message |-> Some(Thrown(error))]

(* catch (error) { ... return { status: "down", ... } } *)
Caught(responseTime, error) ==
  CheckResult("down", Some(responseTime), Some(Thrown(error)))

performCheck(url, type, net, elapsed) ==
  IF type \in {"http", "https"}
  THEN LET response == Fetch(Request("GET", url), net, elapsed, HttpTimeoutMs)
           responseTime == ResponseTime(response, elapsed, HttpTimeoutMs)
       IN IF response.kind = "response"
          THEN IF IsUpCode(response.code)
               THEN CheckResult("up", Some(responseTime), None)
               ELSE CheckResult("down", Some(responseTime),
                                Some(Msg("HTTP", response.code)))
          ELSE Caught(responseTime, response)
  ELSE IF type = "ping"
  THEN IF ~UrlParses(url)
       THEN Caught(0, Net("invalid", 0))
       ELSE LET response == Fetch(Request("HEAD", Origin(url)), net, elapsed,
                                  PingTimeoutMs)
                responseTime == ResponseTime(response, elapsed, PingTimeoutMs)
            IN IF response.kind = "response"
               THEN CheckResult("up", Some(responseTime), None)
               ELSE Caught(responseTime, response)
  ELSE CheckResult("down", None, Some(Msg("Unsupported monitor type", 0)))

(* Whether performCheck(url, type) returns: it awaits at most one fetch. *)
Returns(url, type, elapsed) ==
  IF type \in {"http", "https"}
  THEN ~UrlParses(url) \/ Settles(HttpTimeoutMs, elapsed)
  ELSE IF type = "ping"
  THEN ~UrlParses(url) \/ Settles(PingTimeoutMs, elapsed)
  ELSE TRUE

RunCheckFetch(s) ==
  /\ Accept(s)
  /\ \/ calls' = [calls EXCEPT ![s] =
                    Finish(NewCall("runCheck", Anon, NoId), MethodNotAllowed)]
     \/ calls' = [calls EXCEPT ![s] =
                    Finish(NewCall("runCheck", Anon, NoId), Unauthorized)]
     \/ \E uid \in Users :
          calls' = [calls EXCEPT ![s] =
                      Finish(NewCall("runCheck", uid, NoId), InternalError)]
     \/ \E uid \in Users :
          calls' = [calls EXCEPT ![s] =
                      Finish(NewCall("runCheck", uid, NoId), MissingMonitorId)]
     \/ \E uid \in Users, id \in MonitorIds, ok \in BOOLEAN :
          LET c == [NewCall("runCheck", uid, id) EXCEPT
                      !.seen = Ownership(uid, id),
                      !.floor = [i \in MonitorIds |-> Recorded(i)]]
              got == SelectMonitorSingle(uid, id)
          IN calls' = [calls EXCEPT ![s] =
               IF ~ok \/ got.error \/ got.data = None
               THEN Finish(c, NotFound)
               ELSE [c EXCEPT !.pc = "probe",
                              !.mon = Some([id |-> got.data[1].id,
                                            url |-> got.data[1].url,
                                            type |-> got.data[1].type,
                                            user_id |-> got.data[1].user_id])]]
  /\ UNCHANGED <<monitors, checks, clock, nextMonitorId, nextCheckId,
                 dashboard>>

RunCheckProbe(s, Nets, Elapsed) ==
  /\ calls[s].op = "runCheck" /\ calls[s].pc = "probe"
  /\ \E net \in Nets, elapsed \in Elapsed :
       /\ Returns(calls[s].mon[1].url, calls[s].mon[1].type, elapsed)
       /\ calls' = [calls EXCEPT ![s].pc = "insert",
                                 ![s].probe = Some([net |-> net,
                                                    elapsed |-> elapsed]),
                                 ![s].res =
                                   Some(performCheck(calls[s].mon[1].url,
                                                     calls[s].mon[1].type,
                                                     net, elapsed))]
  /\ UNCHANGED <<monitors, checks, clock, nextMonitorId, nextCheckId, started,
                 dashboard>>

InsertCheckAllowedNoFk(uid, id) == TRUE

(* foreign key on monitor_id, and the with-check of users_can_manage_own_checks *)
InsertCheckAllowed(uid, id) ==
  /\ \E m \in monitors : m.id = id
  /\ \E m \in VisibleMonitors(uid) : m.id = id /\ m.user_id = uid

NewCheckNoLatency(id, r, now) ==
  [id |-> nextCheckId, monitor_id |-> id, status |-> r.status,
   response_time_ms |-> None, error_message |-> r.error_message,
   checked_at |-> now]

(* .insert({ monitor_id, status, response_time_ms, error_message }) *)
NewCheck(id, r, now) ==
  [id |-> nextCheckId, monitor_id |-> id, status |-> r.status,
   response_time_ms |-> r.response_time_ms, error_message |-> r.error_message,
   checked_at |-> now]

RecordIgnored == Response(200, "", None)

(* if (insertError) return 500 "Failed to record check result" *)
RecordFailed == Response(500, "Failed to record check result", None)

CheckStamped(row) ==
  Response(200, "",
    Some([monitor_id |-> row.monitor_id, status |-> row.status,
          response_time_ms |-> row.response_time_ms,
          error_message |-> row.error_message, checked_at |-> clock]))

(* 200 with the row the insert returned (.select().single()) *)
CheckRecorded(row) ==
  Response(200, "",
    Some([monitor_id |-> row.monitor_id, status |-> row.status,
          response_time_ms |-> row.response_time_ms,
          error_message |-> row.error_message,
          checked_at |-> row.checked_at]))

Replaced(row) ==
  {c \in checks : c.monitor_id # row.monitor_id} \cup {row}

(* insert into monitor_checks: the table afterwards *)
Appended(row) == checks \cup {row}

RunCheckInsert(s) ==
  /\ calls[s].op = "runCheck" /\ calls[s].pc = "insert"
  /\ LET c == calls[s]
         failed == RecordFailed
     IN IF ~InsertCheckAllowed(c.user, c.mon[1].id)
        THEN /\ calls' = [calls EXCEPT ![s] =
                            Finish([c EXCEPT !.hit = "norow"], failed)]
             /\ UNCHANGED <<checks, nextCheckId, clock>>
        ELSE \/ /\ calls' = [calls EXCEPT ![s] = Finish(c, failed)]
                /\ UNCHANGED <<checks, nextCheckId, clock>>
             \/ \E now \in Now :
                  LET row == NewCheck(c.mon[1].id, c.res[1], now)
                  IN /\ checks' = Appended(row)
                     /\ nextCheckId' = nextCheckId + 1
                     /\ clock' = now
                     /\ calls' = [calls EXCEPT ![s] =
                          Finish([c EXCEPT !.hit = "row"],
                                 CheckRecorded(row))]
  /\ UNCHANGED <<monitors, nextMonitorId, started, dashboard>>

(* -------------------------------- getMonitors -------------------------- *)
(* JS property access: a missing property is undefined and is dropped by   *)
(* JSON.stringify, which leaves the field absent.                          *)
Get(rec, field) == IF field \in DOMAIN rec THEN rec[field] ELSE None

MonitorChecksOf(uid, monitor_uuid) ==
  {c \in VisibleChecks(uid) : c.monitor_id = monitor_uuid}

(* select monitor_id, status, checked_at ... order by checked_at desc      *)
(* limit 1: every result the query may produce (ties are unordered).       *)
get_latest_monitor_status(uid, monitor_uuid) ==
  LET rows == MonitorChecksOf(uid, monitor_uuid)
      top == {c \in rows : \A d \in rows : d.checked_at <= c.checked_at}
  IN IF rows = {} THEN {<<>>}
     ELSE {<<[monitor_id |-> c.monitor_id, status |-> c.status,
              checked_at |-> c.checked_at]>> : c \in top}

(* .order("created_at", { ascending: false }) *)
OrderedByCreatedDesc(rows) ==
  {q \in [1..Cardinality(rows) -> rows] :
     /\ \A i, j \in DOMAIN q : i # j => q[i] # q[j]
     /\ \A i, j \in DOMAIN q : i < j => q[i].created_at >= q[j].created_at}

Pending == [done |-> FALSE, latest_status |-> None]

WithStatus(mons, out) ==
  [i \in DOMAIN mons |-> [monitor |-> mons[i],
                          latest_status |-> out[i].latest_status]]

ListSuccess(mons, out) ==
  Response(200, "", [data |-> WithStatus(mons, out), count |-> Len(mons)])

ListFetch(s) ==
  /\ Accept(s)
  /\ \/ calls' = [calls EXCEPT ![s] =
                    Finish(NewCall("list", Anon, NoId), MethodNotAllowed)]
     \/ calls' = [calls EXCEPT ![s] =
                    Finish(NewCall("list", Anon, NoId), Unauthorized)]
     \/ \E uid \in Users :
          calls' = [calls EXCEPT ![s] =
                      Finish(NewCall("list", uid, NoId),
                             Response(500, "Failed to fetch monitors", None))]
     \/ \E uid \in Users :
          \E q \in OrderedByCreatedDesc(VisibleMonitors(uid)) :
            LET c == [NewCall("list", uid, NoId) EXCEPT
                        !.floor = [i \in MonitorIds |-> Recorded(i)]]
            IN calls' = [calls EXCEPT ![s] =
                 IF q = <<>>
                 THEN Finish(c, ListSuccess(q, <<>>))
                 ELSE [c EXCEPT !.pc = "status", !.mons = q,
                                !.out = [i \in DOMAIN q |-> Pending]]]
  /\ UNCHANGED <<monitors, checks, clock, nextMonitorId, nextCheckId,
                 dashboard>>

(* latestStatus of lines 115-123 from the rpc's { data, error } *)
LatestStatus(ok, statusData) ==
  IF ok /\ Len(statusData) > 0
  THEN Some([status |-> statusData[1].status,
             checked_at |-> statusData[1].checked_at,
             response_time_ms |-> Get(statusData[1], "response_time_ms")])
  ELSE None

ListStatus(s) ==
  /\ calls[s].op = "list" /\ calls[s].pc = "status"
  /\ \E i \in DOMAIN calls[s].out, ok \in BOOLEAN :
       /\ ~calls[s].out[i].done
       /\ \E statusData \in get_latest_monitor_status(calls[s].user,
                                                      calls[s].mons[i].id) :
            LET c == calls[s]
                out == [c.out EXCEPT ![i] =
                          [done |-> TRUE,
                           latest_status |-> LatestStatus(ok, statusData)]]
            IN calls' = [calls EXCEPT ![s] =
                 IF \A j \in DOMAIN out : out[j].done
                 THEN Finish(c, ListSuccess(c.mons, out))
                 ELSE [c EXCEPT !.out = out]]
  /\ UNCHANGED <<monitors, checks, clock, nextMonitorId, nextCheckId, started,
                 dashboard>>

(* ---------------------------- specification ---------------------------- *)
MainNames == {SiteName}
MainUrls == {SiteUrl}
MainTypes == {"https"}
MainIntervals == {None}

MainBodies ==
  [name : MainNames, url : MainUrls, type : MainTypes,
   interval_seconds : MainIntervals]

MainNets ==
  {[r \in Requests |-> o] : o \in {Net("response", 200), Net("reject", 0)}}
MainElapsed == {40}

Init ==
  /\ monitors = {}
  /\ checks = {}
  /\ clock = 0
  /\ nextMonitorId = 1
  /\ nextCheckId = 1
  /\ calls = [s \in Slots |-> IdleCall]
  /\ started = 0
  /\ dashboard = NewDashboard(Anon)

Next ==
  \/ \E s \in Slots : CreateMonitor(s, MainBodies)
  \/ \E s \in Slots : DeleteFetch(s)
  \/ \E s \in Slots : DeleteExec(s)
  \/ \E s \in Slots : RunCheckFetch(s)
  \/ \E s \in Slots : RunCheckProbe(s, MainNets, MainElapsed)
  \/ \E s \in Slots : RunCheckInsert(s)
  \/ \E s \in Slots : ListFetch(s)
  \/ \E s \in Slots : ListStatus(s)

Spec == Init /\ [][Next]_vars

(* createMonitor alone on one connection, over every shape of request body *)
CreateNames == {EmptyName, BlankName, SiteName}
CreateUrls == {RelativeUrl, SiteUrl}
CreateTypes == {"https", "ftp"}
CreateIntervals == {None, Some(0), Some(-60), Some(30), Some(60), Some(120)}

CreateBodies ==
  [name : CreateNames, url : CreateUrls, type : CreateTypes,
   interval_seconds : {None}]
  \cup [name : {SiteName}, url : {SiteUrl}, type : {"https"},
        interval_seconds : CreateIntervals]

InitCreate ==
  /\ monitors = {}
  /\ checks = {}
  /\ clock = 0
  /\ nextMonitorId = 1
  /\ nextCheckId = 1
  /\ calls = [s \in Slots |-> IF s = 1 THEN IdleCall ELSE ClosedCall]
  /\ started = 0
  /\ dashboard = NewDashboard(Anon)

NextCreate == CreateMonitor(1, CreateBodies)

SpecCreate == InitCreate /\ [][NextCreate]_vars

(* performCheck, and the insert that follows it, over every shape of      *)
(* argument: the handler stands at its call of performCheck with the       *)
(* monitor it fetched.  A type outside MonitorTypes cannot be stored (check *)
(* constraint on monitors.type), so the table holds the row only for the   *)
(* three types it admits.                                                  *)
ProbeUrls == {SiteUrl, RelativeUrl}
ProbeTypes == {"http", "https", "ping", "tcp"}
ProbeCodes == {200, 302, 399, 400, 500}
ProbeOutcomes == {Net("response", c) : c \in ProbeCodes} \cup {Net("reject", 0)}
ProbeNets == Networks(ProbeOutcomes)
ProbeElapsed == {0, 40, 7000, 12000}

ProbeMonitor(url, type) ==
  [id |-> 1, user_id |-> "u1", name |-> SiteName, url |-> url, type |-> type,
   interval_seconds |-> DefaultInterval, created_at |-> 0]

ProbeCall(m) ==
  [NewCall("runCheck", m.user_id, m.id) EXCEPT
     !.pc = "probe", !.seen = "owned",
     !.mon = Some([id |-> m.id, url |-> m.url, type |-> m.type,
                   user_id |-> m.user_id])]

InitProbe ==
  \E url \in ProbeUrls, type \in ProbeTypes :
    LET m == ProbeMonitor(url, type)
    IN /\ monitors = IF type \in MonitorTypes THEN {m} ELSE {}
       /\ checks = {}
       /\ clock = 0
       /\ nextMonitorId = 2
       /\ nextCheckId = 1
       /\ calls = [s \in Slots |-> IF s = 1 THEN ProbeCall(m) ELSE ClosedCall]
       /\ started = 1
       /\ dashboard = NewDashboard(Anon)

NextProbe ==
  \/ RunCheckProbe(1, ProbeNets, ProbeElapsed)
  \/ RunCheckInsert(1)

SpecProbe == InitProbe /\ [][NextProbe]_vars

(* runCheck from its call of performCheck on, against a network whose      *)
(* behaviour is fixed when the probe starts: it answers each request after *)
(* some latency or never.  The event loop resumes the handler once the     *)
(* awaited fetch or insert has settled, which is the fairness stated.      *)
LiveNets == {[r \in Requests |-> o] : o \in ProbeOutcomes}
LiveElapsed == {40, 7000, Never}

InitLive ==
  \E url \in ProbeUrls, type \in ProbeTypes :
    \E net \in LiveNets, elapsed \in LiveElapsed :
      LET m == ProbeMonitor(url, type)
      IN /\ monitors = IF type \in MonitorTypes THEN {m} ELSE {}
         /\ checks = {}
         /\ clock = 0
         /\ nextMonitorId = 2
         /\ nextCheckId = 1
         /\ calls = [s \in Slots |->
                       IF s = 1
                       THEN [ProbeCall(m) EXCEPT
                               !.probe = Some([net |-> net,
                                               elapsed |-> elapsed])]
                       ELSE ClosedCall]
         /\ started = 1
         /\ dashboard = NewDashboard(Anon)

LiveProbe ==
  RunCheckProbe(1, {calls[1].probe[1].net}, {calls[1].probe[1].elapsed})

LiveInsert == RunCheckInsert(1)

NextLive == LiveProbe \/ LiveInsert

SpecLive ==
  InitLive /\ [][NextLive]_vars /\ WF_vars(LiveProbe) /\ WF_vars(LiveInsert)

(* deleteMonitor and runCheck, on two connections, against two stored      *)
(* monitors of which the second has been checked once: the tables as two   *)
(* creates and one runCheck leave them.                                    *)
PairMonitor(id, uid) ==
  [id |-> id, user_id |-> uid, name |-> SiteName, url |-> SiteUrl,
   type |-> "https", interval_seconds |-> DefaultInterval, created_at |-> 0]

PairCheck(id, mid) ==
  [id |-> id, monitor_id |-> mid, status |-> "up",
   response_time_ms |-> Some(40), error_message |-> None, checked_at |-> 0]

InitPair ==
  \E uid \in Users :
    /\ monitors = {PairMonitor(1, "u1"), PairMonitor(2, uid)}
    /\ checks = {PairCheck(1, 2)}
    /\ clock = 0
    /\ nextMonitorId = 3
    /\ nextCheckId = 2
    /\ calls = [s \in Slots |-> IF s <= 2 THEN IdleCall ELSE ClosedCall]
    /\ started = 0
    /\ dashboard = NewDashboard(Anon)

NextPair ==
  \/ \E s \in Slots : DeleteFetch(s)
  \/ \E s \in Slots : DeleteExec(s)
  \/ \E s \in Slots : RunCheckFetch(s)
  \/ \E s \in Slots : RunCheckProbe(s, MainNets, MainElapsed)
  \/ \E s \in Slots : RunCheckInsert(s)

SpecPair == InitPair /\ [][NextPair]_vars

(* ------------------------------ dashboard ------------------------------ *)
(* supabase.functions.invoke: a non-2xx answer comes back as error, which  *)
(* the client library rethrows.                                            *)
Throws(resp) == resp.status < 200 \/ resp.status > 299

(* A request of the page travels on connection s; once its answer has been *)
(* handed to the awaiting callback the connection is idle again.           *)
Sent(s, o) == calls[s].op = o /\ calls[s].pc = "done"
Consumed(s) == calls' = [calls EXCEPT ![s] = IdleCall]

(* The page starts a request only on a connection whose last answer has    *)
(* been consumed, and always as the signed-in user.                        *)
Invoke(s) == calls[s].pc = "idle" /\ calls'[s].user = dashboard.user

OnList(id) == \E i \in DOMAIN dashboard.monitors :
                dashboard.monitors[i].monitor.id = id

(* const currentStatus = monitor.latest_status?.status || null *)
currentStatus(monitor) ==
  IF monitor.latest_status = None THEN None
  ELSE Some(monitor.latest_status[1].status)

(* getMonitors(), from the 30 second poll or from fetchMonitors *)
getMonitors(s) ==
  /\ ListFetch(s)
  /\ Invoke(s)

(* setMonitors(data || []); a failed request leaves the list as it is *)
fetchMonitors(s) ==
  /\ Sent(s, "list")
  /\ dashboard' =
       IF Throws(calls[s].resp) THEN dashboard
       ELSE [dashboard EXCEPT !.monitors = calls[s].resp.data.data]
  /\ Consumed(s)
  /\ UNCHANGED <<monitors, checks, clock, nextMonitorId, nextCheckId, started>>

(* prev.filter((m) => m.id !== monitorId) *)
handleMonitorDeleted(prev, monitorId) ==
  SelectSeq(prev, LAMBDA m : m.monitor.id # monitorId)

(* prev.map(...): only an entry that has a latest_status is rewritten *)
handleCheckCompleted(prev, monitorId, newStatus, now) ==
  [i \in DOMAIN prev |->
     IF prev[i].monitor.id = monitorId /\ prev[i].latest_status # None
     THEN [prev[i] EXCEPT
             !.latest_status =
               Some([prev[i].latest_status[1] EXCEPT
                       !.status = newStatus, !.checked_at = now])]
     ELSE prev[i]]

(* MonitorCard.handleRunCheck up to its await: runCheck(monitor.id) *)
handleRunCheck(s) ==
  /\ RunCheckFetch(s)
  /\ Invoke(s)
  /\ OnList(calls'[s].mid)

(* ... and after it: onCheckCompleted(monitor.id, result.status), with the *)
(* browser's new Date() for checked_at                                     *)
RunCheckSettled(s) ==
  /\ Sent(s, "runCheck")
  /\ \E now \in 0..MaxClock :
       dashboard' =
         IF Throws(calls[s].resp) THEN dashboard
         ELSE [dashboard EXCEPT
                 !.monitors =
                   handleCheckCompleted(dashboard.monitors, calls[s].mid,
                                        calls[s].resp.data[1].status, now)]
  /\ Consumed(s)
  /\ UNCHANGED <<monitors, checks, clock, nextMonitorId, nextCheckId, started>>

(* MonitorCard.handleDelete up to its await: deleteMonitor(monitor.id) *)
handleDelete(s) ==
  /\ DeleteFetch(s)
  /\ Invoke(s)
  /\ OnList(calls'[s].mid)

(* ... and after it: onDeleted(monitor.id) *)
DeleteSettled(s) ==
  /\ Sent(s, "delete")
  /\ dashboard' =
       IF Throws(calls[s].resp) THEN dashboard
       ELSE [dashboard EXCEPT
               !.monitors = handleMonitorDeleted(dashboard.monitors,
                                                 calls[s].mid),
               !.removed = dashboard.removed \cup {calls[s].mid}]
  /\ Consumed(s)
  /\ UNCHANGED <<monitors, checks, clock, nextMonitorId, nextCheckId, started>>

(* One signed-in user's page over two stored monitors, the second checked  *)
(* once: every request comes from the page, the poll included.             *)
InitDash ==
  /\ monitors = {PairMonitor(1, "u1"), PairMonitor(2, "u1")}
  /\ checks = {PairCheck(1, 2)}
  /\ clock = 0
  /\ nextMonitorId = 3
  /\ nextCheckId = 2
  /\ calls = [s \in Slots |-> IF s <= 2 THEN IdleCall ELSE ClosedCall]
  /\ started = 0
  /\ dashboard = NewDashboard("u1")

NextDash ==
  \/ \E s \in Slots : getMonitors(s)
  \/ \E s \in Slots : ListStatus(s)
  \/ \E s \in Slots : fetchMonitors(s)
  \/ \E s \in Slots : handleRunCheck(s)
  \/ \E s \in Slots : RunCheckProbe(s, MainNets, MainElapsed)
  \/ \E s \in Slots : RunCheckInsert(s)
  \/ \E s \in Slots : RunCheckSettled(s)
  \/ \E s \in Slots : handleDelete(s)
  \/ \E s \in Slots : DeleteExec(s)
  \/ \E s \in Slots : DeleteSettled(s)

SpecDash == InitDash /\ [][NextDash]_vars

(* ------------------------------ properties ----------------------------- *)
MonitorExists(id) == \E m \in monitors : m.id = id

ChecksOf(id) == {c \in checks : c.monitor_id = id}

Done(s, o) == calls[s].op = o /\ calls[s].pc = "done"

(* C1: every stored check row references a monitor that currently exists; *)
(* a delete that removed monitor M left neither M nor any check row of M,  *)
(* and the latest status of an absent monitor is absent for every caller.  *)
C1_NoOrphanedChecks ==
  /\ \A c \in checks : MonitorExists(c.monitor_id)
  /\ \A s \in Slots :
       (Done(s, "delete") /\ calls[s].hit = "row") =>
         (~MonitorExists(calls[s].mid) /\ ChecksOf(calls[s].mid) = {})
  /\ \A id \in MonitorIds, uid \in Users :
       ~MonitorExists(id) => get_latest_monitor_status(uid, id) = {<<>>}

C1_Witness ==
  /\ nextCheckId > 1
  /\ checks = {}
  /\ \E s \in Slots : Done(s, "delete") /\ calls[s].hit = "row"

(* C2: when runCheck's insert runs after the monitor it fetched has been   *)
(* deleted, the insert stores no check row and the caller gets an error    *)
(* response, never a 200.                                                  *)
C2_RacingInsertRejected ==
  [][\A s \in Slots :
       (/\ calls[s].op = "runCheck" /\ calls[s].pc = "insert"
        /\ calls'[s].pc = "done"
        /\ ~MonitorExists(calls[s].mid))
       => (calls'[s].resp.status >= 400 /\ checks' = checks)]_vars

C2_Witness ==
  \E s \in Slots :
    /\ Done(s, "runCheck") /\ calls[s].hit = "norow"
    /\ calls[s].resp.status = 500
    /\ ~MonitorExists(calls[s].mid)
    /\ \E t \in Slots : Done(t, "delete") /\ calls[t].hit = "row"
                        /\ calls[t].mid = calls[s].mid

(* The status lookup of getMonitors for entry i of slot s resolves in this *)
(* step, and what it attaches to the monitor.                              *)
Resolves(s, i) ==
  /\ calls[s].op = "list" /\ calls[s].pc = "status"
  /\ ~calls[s].out[i].done
  /\ (calls'[s].pc = "done" \/ calls'[s].out[i].done)

Attached(s, i) ==
  IF calls'[s].pc = "done" THEN calls'[s].resp.data.data[i].latest_status
  ELSE calls'[s].out[i].latest_status

(* C3: the latest status returned by get_latest_monitor_status, and the    *)
(* one getMonitors attaches, is the monitor's check row with the greatest  *)
(* checked_at, and is absent exactly when the monitor has no check rows.   *)
C3_LatestIsNewest ==
  /\ [](\A m \in monitors :
          \A r \in get_latest_monitor_status(m.user_id, m.id) :
            /\ (r = <<>>) <=> (ChecksOf(m.id) = {})
            /\ r # <<>> => r[1].checked_at = Recorded(m.id))
  /\ [][\A s \in Slots : \A i \in DOMAIN calls[s].out :
          Resolves(s, i) =>
            LET id == calls[s].mons[i].id
                att == Attached(s, i)
            IN /\ (att = None) <=> (ChecksOf(id) = {})
               /\ att # None => att[1].checked_at = Recorded(id)]_vars

(* C4: a getMonitors that answers 200 annotates every monitor of the       *)
(* caller that still exists and had a recorded check when the request      *)
(* arrived with a latest status at least as recent as that check.          *)
C4_NoStaleness ==
  \A s \in Slots :
    (Done(s, "list") /\ calls[s].resp.status = 200) =>
      \A m \in monitors :
        (m.user_id = calls[s].user /\ calls[s].floor[m.id] >= 0) =>
          \E i \in DOMAIN calls[s].resp.data.data :
            LET e == calls[s].resp.data.data[i]
            IN /\ e.monitor.id = m.id
               /\ e.latest_status # None
               /\ e.latest_status[1].checked_at >= calls[s].floor[m.id]

(* C5: getMonitors fetches and returns only monitors whose user_id is the  *)
(* caller; runCheck against another identity's monitor answers 404 without *)
(* probing or inserting.                                                   *)
C5_OwnershipIsolation ==
  \A s \in Slots :
    /\ (calls[s].op = "list" /\ calls[s].pc = "status") =>
         \A i \in DOMAIN calls[s].mons : calls[s].mons[i].user_id = calls[s].user
    /\ (Done(s, "list") /\ calls[s].resp.status = 200) =>
         \A i \in DOMAIN calls[s].resp.data.data :
           calls[s].resp.data.data[i].monitor.user_id = calls[s].user
    /\ (calls[s].op = "runCheck" /\ calls[s].seen = "foreign") =>
         /\ calls[s].pc = "done"
         /\ calls[s].resp = NotFound
         /\ calls[s].hit = "-"

C5_Witness ==
  /\ \E s \in Slots : Done(s, "runCheck") /\ calls[s].seen = "foreign"
  /\ \E t \in Slots :
       /\ Done(t, "list") /\ calls[t].resp.status = 200
       /\ calls[t].resp.data.count = 0
       /\ \E m \in monitors : m.user_id # calls[t].user

(* C6: a delete of an id that does not exist and a delete of an id owned   *)
(* by another identity get the same response, status 404 with one body.    *)
C6_DeleteOpacity ==
  /\ \A s \in Slots :
       (calls[s].op = "delete" /\ calls[s].seen \in {"absent", "foreign"}) =>
         (calls[s].pc = "done" /\ calls[s].resp = NotFound)
  /\ \A s, t \in Slots :
       (/\ Done(s, "delete") /\ Done(t, "delete")
        /\ calls[s].user = calls[t].user
        /\ calls[s].seen = "absent" /\ calls[t].seen = "foreign")
       => calls[s].resp = calls[t].resp

C6_Witness ==
  \E s, t \in Slots :
    /\ Done(s, "delete") /\ Done(t, "delete")
    /\ calls[s].user = calls[t].user
    /\ calls[s].seen = "absent" /\ calls[t].seen = "foreign"
    /\ calls[s].resp.status = 404

(* C7: every step of a delete issued by an identity that does not own the  *)
(* monitor answers 404 and leaves the monitors and their check rows as     *)
(* they were, so the monitor is still visible to its owner.                *)
C7_ForeignDeleteFrame ==
  [][\A s \in Slots :
       (/\ calls'[s] # calls[s]
        /\ calls'[s].op = "delete" /\ calls'[s].seen = "foreign")
       => /\ calls'[s].pc = "done"
          /\ calls'[s].resp.status = 404
          /\ monitors' = monitors
          /\ checks' = checks
          /\ \E m \in monitors' : m.id = calls'[s].mid
                                  /\ m.user_id # calls'[s].user]_vars

C7_Witness ==
  \E s \in Slots :
    /\ Done(s, "delete") /\ calls[s].seen = "foreign"
    /\ calls[s].resp.status = 404
    /\ \E m \in monitors : m.id = calls[s].mid /\ m.user_id # calls[s].user
    /\ ChecksOf(calls[s].mid) # {}

(* C8: a delete answers success only if that call removed the monitor; of  *)
(* two deletes of one monitor at most one answers success.                 *)
C8_OneDeleteSucceeds ==
  /\ \A s \in Slots :
       (Done(s, "delete") /\ calls[s].resp.status = 200) => calls[s].hit = "row"
  /\ \A s, t \in Slots :
       (/\ s # t
        /\ Done(s, "delete") /\ Done(t, "delete")
        /\ calls[s].mid = calls[t].mid)
       => ~(calls[s].resp.status = 200 /\ calls[t].resp.status = 200)

(* C9: a create whose body supplies an interval below 60 seconds is        *)
(* answered with an error and stores no monitor.                           *)
C9_ShortIntervalRejected ==
  \A s \in Slots :
    (/\ Done(s, "create") /\ calls[s].body # None
     /\ calls[s].body[1].interval_seconds # None
     /\ calls[s].body[1].interval_seconds[1] < 60)
    => (calls[s].resp.status >= 400 /\ calls[s].mid = NoId)

InvalidCreate(body) ==
  \/ Trim(body.name) = <<>>
  \/ ~UrlParses(body.url)
  \/ body.type \notin MonitorTypes

(* C10: a create whose name is empty after trimming, whose url is not an   *)
(* absolute URL or whose type is not http, https or ping is answered with  *)
(* an error and leaves the monitors table unchanged; a create that         *)
(* succeeds adds exactly one monitor, owned by the caller.                 *)
C10_CreateValidates ==
  [][\A s \in Slots :
       (calls'[s] # calls[s] /\ calls'[s].op = "create") =>
         /\ (calls'[s].body # None /\ InvalidCreate(calls'[s].body[1])) =>
              (calls'[s].resp.status >= 400 /\ monitors' = monitors)
         /\ calls'[s].resp.status = 201 =>
              \E m \in monitors' :
                /\ m \notin monitors
                /\ monitors' = monitors \cup {m}
                /\ m.user_id = calls'[s].user
         /\ calls'[s].resp.status # 201 => monitors' = monitors]_vars

(* The monitor row a successful create stored. *)
Stored(s) == CHOOSE m \in monitors : m.id = calls[s].mid

ValidInterval(iv) == iv # None /\ iv[1] >= 60

(* C11: a create that succeeds with the interval omitted stores            *)
(* interval_seconds = 300, and a create that succeeds with a supplied      *)
(* interval of at least 60 seconds stores exactly the supplied value; the  *)
(* row returned is the row stored.                                         *)
C11_IntervalStored ==
  \A s \in Slots :
    (Done(s, "create") /\ calls[s].resp.status = 201) =>
      LET iv == calls[s].body[1].interval_seconds
      IN /\ \E m \in monitors : m.id = calls[s].mid
         /\ calls[s].resp.data[1] = Stored(s)
         /\ iv = None => Stored(s).interval_seconds = 300
         /\ ValidInterval(iv) => Stored(s).interval_seconds = iv[1]

C11_Witness ==
  /\ \E s \in Slots :
       /\ Done(s, "create") /\ calls[s].resp.status = 201
       /\ calls[s].body[1].interval_seconds = Some(120)
       /\ Stored(s).interval_seconds = 120
  /\ \E m \in monitors : m.interval_seconds = 300

(* runCheck in slot s has run performCheck and holds its result. *)
Probed(s) == calls[s].op = "runCheck" /\ calls[s].pc = "insert"

(* req can be sent and the network answers it with a response before the   *)
(* limit.                                                                  *)
Answered(s, req, limit) ==
  /\ UrlParses(req.url)
  /\ calls[s].probe[1].elapsed < limit
  /\ calls[s].probe[1].net[req].kind = "response"

SchemeAndHost(u) == [scheme |-> u.scheme, host |-> u.host, path |-> ""]

(* C12: for type http or https, performCheck returns up if and only if the *)
(* GET of the url is answered within 10 seconds by a response with status  *)
(* code 200..399, and returns down in every other case.                    *)
C12_HttpUpIff2xx3xx ==
  \A s \in Slots :
    (Probed(s) /\ calls[s].mon[1].type \in {"http", "https"}) =>
      LET req == Request("GET", calls[s].mon[1].url)
          r == calls[s].res[1]
      IN /\ (r.status = "up") <=>
              /\ Answered(s, req, 10000)
              /\ calls[s].probe[1].net[req].code \in 200..399
         /\ r.status # "up" => r.status = "down"

C12_Witness ==
  \E s \in Slots :
    /\ Probed(s) /\ calls[s].mon[1].type = "http"
    /\ calls[s].mon[1].url = SiteUrl
    /\ calls[s].probe[1].net[Request("GET", SiteUrl)] = Net("response", 399)
    /\ calls[s].probe[1].elapsed = 7000
    /\ calls[s].res[1].status = "up"

(* C13: for type ping, performCheck returns up if and only if the HEAD     *)
(* request to the scheme and host of the url is answered within 5 seconds  *)
(* by a response, whatever its status code and whatever the url itself     *)
(* would answer, and returns down in every other case.                     *)
C13_PingUpOnAnyResponse ==
  \A s \in Slots :
    (Probed(s) /\ calls[s].mon[1].type = "ping") =>
      LET req == Request("HEAD", SchemeAndHost(calls[s].mon[1].url))
          r == calls[s].res[1]
      IN /\ (r.status = "up") <=>
              (UrlParses(calls[s].mon[1].url) /\ Answered(s, req, 5000))
         /\ r.status # "up" => r.status = "down"

C13_Witness ==
  \E s \in Slots :
    /\ Probed(s) /\ calls[s].mon[1].type = "ping"
    /\ calls[s].mon[1].url = SiteUrl
    /\ calls[s].probe[1].net[Request("HEAD", SiteOrigin)] = Net("response", 500)
    /\ calls[s].probe[1].net[Request("HEAD", SiteUrl)] = Net("reject", 0)
    /\ calls[s].probe[1].net[Request("GET", SiteUrl)] = Net("reject", 0)
    /\ calls[s].res[1].status = "up"

(* C14: for every type and every outcome of the network call, performCheck *)
(* returns one result whose status is up or down, never an exception; a    *)
(* type other than http, https and ping yields down with the error message *)
(* "Unsupported monitor type".                                             *)
C14_NeverRaises ==
  \A s \in Slots :
    Probed(s) =>
      /\ Len(calls[s].res) = 1
      /\ calls[s].res[1].status \in {"up", "down"}
      /\ calls[s].mon[1].type \notin {"http", "https", "ping"} =>
           /\ calls[s].res[1].status = "down"
           /\ calls[s].res[1].error_message =
                Some(Msg("Unsupported monitor type", 0))

C14_Witness ==
  \E s \in Slots :
    /\ Probed(s) /\ calls[s].mon[1].type = "tcp"
    /\ calls[s].probe[1].net[Request("GET", SiteUrl)] = Net("reject", 0)
    /\ calls[s].res[1] =
         CheckResult("down", None, Some(Msg("Unsupported monitor type", 0)))

WellFormed(r) ==
  /\ r.status \in {"up", "down"}
  /\ r.status = "up" =>
       /\ r.response_time_ms # None
       /\ r.response_time_ms[1] >= 0
       /\ r.error_message = None
  /\ r.status = "down" =>
       (r.error_message # None \/ r.response_time_ms = None)

(* C15: every result of performCheck and every stored check row has: up    *)
(* implies a response time that is present and not negative and no error   *)
(* message; down implies an error message or no response time.             *)
C15_ResultWellFormed ==
  /\ \A s \in Slots : Probed(s) => WellFormed(calls[s].res[1])
  /\ \A c \in checks : WellFormed(c)

C15_Witness ==
  /\ \E c \in checks :
       /\ c.status = "down"
       /\ c.response_time_ms = Some(10000)
       /\ c.error_message # None
  /\ \E s \in Slots : Done(s, "runCheck") /\ calls[s].resp.status = 200

(* The insert statement of runCheck in slot s runs in this step. *)
Inserts(s) ==
  /\ calls[s].op = "runCheck" /\ calls[s].pc = "insert"
  /\ calls'[s] # calls[s]

(* C16: when the insert of a completed probe stores no row, the handler    *)
(* ends in that same step, without running the insert again, with the      *)
(* response 500 "Failed to record check result"; and a response other than *)
(* 200 means no check row was stored.                                      *)
C16_RecordFailureReported ==
  [][\A s \in Slots :
       Inserts(s) =>
         /\ calls'[s].pc = "done"
         /\ checks' = checks =>
              /\ calls'[s].resp.status = 500
              /\ calls'[s].resp.error = "Failed to record check result"
              /\ nextCheckId' = nextCheckId
         /\ calls'[s].resp.status # 200 => checks' = checks]_vars

C16_Witness ==
  \E s \in Slots :
    /\ Done(s, "runCheck")
    /\ calls[s].resp.status = 500
    /\ calls[s].resp.error = "Failed to record check result"
    /\ calls[s].hit = "-"
    /\ MonitorExists(calls[s].mid)
    /\ ChecksOf(calls[s].mid) = {}
    /\ nextCheckId = 1

(* C17: a step adds check rows only if it is the insert of a runCheck; a   *)
(* runCheck that answers 200 added exactly one row, for the requested      *)
(* monitor, and returns that row's status, response time, error message    *)
(* and checked_at; a runCheck that answers 400, 401, 404 or 405 added none. *)
C17_OnlyRunCheckAppends ==
  [][/\ ~(checks' \subseteq checks) => \E s \in Slots : Inserts(s)
     /\ \A s \in Slots :
          (/\ calls'[s] # calls[s]
           /\ calls'[s].op = "runCheck" /\ calls'[s].pc = "done") =>
            /\ calls'[s].resp.status = 200 =>
                 \E row \in checks' :
                   /\ row \notin checks
                   /\ checks' = checks \cup {row}
                   /\ row.monitor_id = calls'[s].mid
                   /\ calls'[s].resp.data =
                        Some([monitor_id |-> row.monitor_id,
                              status |-> row.status,
                              response_time_ms |-> row.response_time_ms,
                              error_message |-> row.error_message,
                              checked_at |-> row.checked_at])
            /\ calls'[s].resp.status \in {400, 401, 404, 405} =>
                 checks' = checks]_vars

C17_Witness ==
  /\ \E s \in Slots :
       /\ Done(s, "runCheck") /\ calls[s].resp.status = 200
       /\ calls[s].hit = "row"
       /\ \E row \in checks :
            /\ row.monitor_id = calls[s].mid
            /\ row.checked_at = calls[s].resp.data[1].checked_at
            /\ row.status = calls[s].resp.data[1].status
       /\ Cardinality(checks) = 1
  /\ \E t \in Slots :
       Done(t, "runCheck") /\ calls[t].resp.status \in {400, 401, 404, 405}

(* The monitors select of getMonitors in slot s has run in this step, and  *)
(* the rows it fetched.                                                    *)
Lists(s) ==
  /\ calls'[s] # calls[s]
  /\ Free(s)
  /\ calls'[s].op = "list"
  /\ (calls'[s].pc = "status" \/ calls'[s].resp.status = 200)

Listed(s) ==
  IF calls'[s].pc = "status" THEN calls'[s].mons
  ELSE [i \in DOMAIN calls'[s].resp.data.data |->
          calls'[s].resp.data.data[i].monitor]

(* C18: a getMonitors that answers 200 returns the monitors in             *)
(* non-increasing created_at order, no monitor twice and only monitors of  *)
(* the caller; a monitor that still exists and had a check row when the    *)
(* request arrived is not annotated absent; and the rows fetched are       *)
(* exactly the caller's monitors.                                          *)
C18_ListNewestFirstAnnotated ==
  /\ [](\A s \in Slots :
          (Done(s, "list") /\ calls[s].resp.status = 200) =>
            LET d == calls[s].resp.data.data
            IN /\ \A i, j \in DOMAIN d :
                    i < j => d[i].monitor.created_at >= d[j].monitor.created_at
               /\ \A i, j \in DOMAIN d :
                    i # j => d[i].monitor.id # d[j].monitor.id
               /\ \A i \in DOMAIN d :
                    /\ d[i].monitor.user_id = calls[s].user
                    /\ (d[i].latest_status = None
                        /\ MonitorExists(d[i].monitor.id)) =>
                         calls[s].floor[d[i].monitor.id] = -1)
  /\ [][\A s \in Slots :
          Lists(s) =>
            {Listed(s)[i] : i \in DOMAIN Listed(s)} =
              {m \in monitors : m.user_id = calls'[s].user}]_vars

(* C19: when getMonitors attaches a latest status taken from a check row   *)
(* that has a response_time_ms, the latest status carries that value.      *)
C19_LatestStatusHasLatency ==
  \A s \in Slots :
    (Done(s, "list") /\ calls[s].resp.status = 200) =>
      \A i \in DOMAIN calls[s].resp.data.data :
        LET e == calls[s].resp.data.data[i]
        IN e.latest_status # None =>
             \A c \in checks :
               (/\ c.monitor_id = e.monitor.id
                /\ c.checked_at = e.latest_status[1].checked_at
                /\ c.status = e.latest_status[1].status
                /\ c.response_time_ms # None) =>
                 \E d \in ChecksOf(e.monitor.id) :
                   /\ d.checked_at = c.checked_at
                   /\ e.latest_status[1].response_time_ms = d.response_time_ms

(* C20: a request of createMonitor, getMonitors, deleteMonitor or runCheck *)
(* that carries no verified identity is answered in its first step, with   *)
(* 401 (or with 405 when its method is wrong, which is tested before the   *)
(* identity), without a statement on monitors or monitor_checks and        *)
(* without a probe, and the step leaves both tables as they were.          *)
C20_UnauthenticatedRejected ==
  [][\A s \in Slots :
       (/\ calls'[s] # calls[s]
        /\ calls'[s].op \in {"create", "list", "delete", "runCheck"}
        /\ calls'[s].user = Anon)
       => /\ calls'[s].pc = "done"
          /\ calls'[s].resp.status \in {401, 405}
          /\ calls'[s].resp.status = 401 =>
               calls'[s].resp.error = "Unauthorized - please log in"
          /\ calls'[s].seen = "-" /\ calls'[s].hit = "-"
          /\ calls'[s].probe = None /\ calls'[s].mid = NoId
          /\ monitors' = monitors /\ checks' = checks
          /\ nextMonitorId' = nextMonitorId /\ nextCheckId' = nextCheckId]_vars

C20_Witness ==
  \E s, t \in Slots :
    /\ Done(s, "runCheck") /\ Done(t, "delete")
    /\ calls[s].user = Anon /\ calls[t].user = Anon
    /\ calls[s].resp.status = 401 /\ calls[t].resp.status = 401
    /\ monitors # {}

(* C21: no two check rows of one monitor have the same checked_at.         *)
C21_CheckedAtDistinct ==
  \A c, d \in checks :
    (c.monitor_id = d.monitor_id /\ c.checked_at = d.checked_at) => c = d

(* A monitor keeps its owner for as long as it is stored. *)
OwnerKept ==
  \A m \in monitors : \A n \in monitors' : m.id = n.id => m.user_id = n.user_id

(* C22: every stored monitor has an interval_seconds that is a multiple of *)
(* 60 and at least 60, and no step changes the user_id of a stored         *)
(* monitor.                                                                *)
C22_IntervalAndOwner ==
  /\ [](\A m \in monitors :
          m.interval_seconds % 60 = 0 /\ m.interval_seconds >= 60)
  /\ [][OwnerKept]_vars

(* C23: no step changes a field of a stored check row, and a step removes  *)
(* a check row only by removing the monitor it belongs to; while the       *)
(* monitor stays, its rows stay.                                           *)
C23_AppendOnly ==
  [][/\ \A c \in checks : \A d \in checks' : c.id = d.id => c = d
     /\ \A c \in checks :
          c \notin checks' =>
            /\ \E m \in monitors : m.id = c.monitor_id
            /\ \A m \in monitors' : m.id # c.monitor_id]_vars

C23_Witness ==
  /\ \E m \in monitors : Cardinality(ChecksOf(m.id)) = 2
  /\ \A s \in Slots : Done(s, "runCheck") /\ calls[s].resp.status = 200

(* The runCheck calls on record that answered 200 for monitor id. *)
Succeeded(id) ==
  {s \in Slots : /\ Done(s, "runCheck") /\ calls[s].mid = id
                 /\ calls[s].resp.status = 200}

(* C24: runCheck calls for one monitor that overlap do not disturb each    *)
(* other: while the monitor exists, none of them has its insert rejected,  *)
(* every one that answered 200 finds the row it returned in the history,   *)
(* and the history holds one row per call that answered 200 and no more    *)
(* rows than inserts that succeeded.                                       *)
C24_ConcurrentChecksKeepRows ==
  \A m \in monitors :
    /\ \A s \in Slots :
         (calls[s].op = "runCheck" /\ calls[s].mid = m.id
          /\ calls[s].seen = "owned") => calls[s].hit # "norow"
    /\ \A s \in Succeeded(m.id) :
         \E c \in ChecksOf(m.id) :
           /\ c.checked_at = calls[s].resp.data[1].checked_at
           /\ c.status = calls[s].resp.data[1].status
           /\ c.response_time_ms = calls[s].resp.data[1].response_time_ms
    /\ Cardinality(ChecksOf(m.id)) >= Cardinality(Succeeded(m.id))
    /\ Cardinality(ChecksOf(m.id)) <= nextCheckId - 1

C24_Witness ==
  \E m \in monitors :
    /\ Cardinality(Succeeded(m.id)) = 2
    /\ \A s \in Succeeded(m.id) : calls[s].floor[m.id] = -1
    /\ Cardinality(ChecksOf(m.id)) = 2

(* Slot s takes a step of deleteMonitor or runCheck. *)
Acts(s) ==
  calls'[s] # calls[s] /\ calls'[s].op \in {"delete", "runCheck"}

(* C25: a step of a runCheck or a delete on monitor A leaves the monitor   *)
(* row, the check rows and the latest status of every other monitor B as   *)
(* they were.                                                              *)
C25_MonitorsIndependent ==
  [][\A s \in Slots :
       Acts(s) =>
         \A b \in monitors :
           b.id # calls'[s].mid =>
             /\ b \in monitors'
             /\ {c \in checks' : c.monitor_id = b.id} = ChecksOf(b.id)
             /\ get_latest_monitor_status(b.user_id, b.id)' =
                  get_latest_monitor_status(b.user_id, b.id)]_vars

C25_Witness ==
  /\ \E s \in Slots : Done(s, "delete") /\ calls[s].hit = "row"
                        /\ calls[s].mid = 1
  /\ \E t \in Slots : Done(t, "runCheck") /\ calls[t].hit = "row"
                        /\ calls[t].mid = 1
  /\ monitors = {PairMonitor(2, "u1")}
  /\ checks = {PairCheck(1, 2)}

(* C26: every runCheck that has reached its probe or its insert eventually *)
(* answers, with 200 or with an error status.                              *)
C26_CheckResponds ==
  \A s \in Slots :
    (calls[s].op = "runCheck" /\ calls[s].pc \in {"probe", "insert"})
      ~> (/\ calls[s].pc = "done"
          /\ (calls[s].resp.status = 200 \/ calls[s].resp.status >= 400))

C26_Witness ==
  /\ \E s \in Slots : Done(s, "runCheck") /\ calls[s].resp.status = 200
  /\ \E c \in checks :
       /\ c.response_time_ms = Some(PingTimeoutMs)
       /\ c.error_message = Some(Msg("The signal has been aborted", 0))

(* The page's callback consumes the 200 answer of a runCheck on s. *)
CheckDelivered(s) ==
  /\ Sent(s, "runCheck") /\ calls[s].resp.status = 200
  /\ calls'[s].pc = "idle"
  /\ OnList(calls[s].mid)

(* C27: when a check started from a card completes with status s, the     *)
(* list entry of that monitor shows s afterwards, whether or not it had a  *)
(* latest_status before, and every other entry of the list is unchanged.   *)
C27_CardShowsCheckedStatus ==
  [][\A s \in Slots :
       CheckDelivered(s) =>
         /\ DOMAIN dashboard'.monitors = DOMAIN dashboard.monitors
         /\ \A i \in DOMAIN dashboard.monitors :
              IF dashboard.monitors[i].monitor.id = calls[s].mid
              THEN currentStatus(dashboard'.monitors[i]) =
                     Some(calls[s].resp.data[1].status)
              ELSE dashboard'.monitors[i] = dashboard.monitors[i]]_vars

(* C28: a monitor that handleMonitorDeleted has removed after a successful *)
(* delete is never on the dashboard's list again, whichever getMonitors    *)
(* answers arrive later.                                                   *)
C28_DeletedStaysRemoved ==
  \A id \in dashboard.removed : ~OnList(id)
====
